---------------------------- MODULE Spec2Model ----------------------------
(***************************************************************************)
(* Model of src/app.py: the vintage spreadsheet loader                     *)
(* (load_and_process_data and its helpers), the vintage selector           *)
(* (pick_vintage_values), the transforms (calc_qoq_saar, rolling z-score)  *)
(* and the top-level script that runs them and renders the result.         *)
(*                                                                         *)
(* Representation                                                          *)
(*   text       a sequence of one-character strings, <<"D","a","t","e">>   *)
(*   cell       [t |-> "nan" | "str" | "num", s |-> text, v |-> integer]   *)
(*   timestamp  the integer yyyymmdd, NaT is 0                             *)
(*   float      [k |-> "nan" | "inf" | "num", n |-> num, d |-> den]        *)
(*              (exact rationals, n/d in lowest terms, d > 0)              *)
(***************************************************************************)
EXTENDS Integers, Sequences, FiniteSets, TLC

VARIABLES pc, raw, mode, df, error, shown, args, ret

vars == <<pc, raw, mode, df, error, shown, args, ret>>

(***************************************************************************)
(* Bounds of the model                                                     *)
(***************************************************************************)
MaxLabels == 3

MaxHeaderRows == 3

MaxGridRows == 4

MaxDates == 2

MaxSeries == 3

MaxZLen == 4

MaxCols == 3

MaxPickRows == 1

\* the rolling window, in quarters (the script's is 20 * 4: line 217)
WINDOW_Q == 3

(***************************************************************************)
(* Text                                                                    *)
(***************************************************************************)
UpperChars == <<"A","B","C","D","E","F","G","H","I","J","K","L","M","N","O","P","Q","R","S","T","U","V","W","X","Y","Z">>

LowerChars == <<"a","b","c","d","e","f","g","h","i","j","k","l","m","n","o","p","q","r","s","t","u","v","w","x","y","z">>

DigitChars == <<"0","1","2","3","4","5","6","7","8","9">>

IsDigit(c) == \E i \in 1..10 : DigitChars[i] = c

IsSpace(c) == c = " "

\* a regex word character (\w): letter, digit or underscore
IsWordChar(c) ==
    \/ IsDigit(c)
    \/ c = "_"
    \/ \E i \in 1..26 : UpperChars[i] = c \/ LowerChars[i] = c

LowerChar(c) ==
    IF \E i \in 1..26 : UpperChars[i] = c
    THEN LowerChars[CHOOSE i \in 1..26 : UpperChars[i] = c]
    ELSE c

UpperChar(c) ==
    IF \E i \in 1..26 : LowerChars[i] = c
    THEN UpperChars[CHOOSE i \in 1..26 : LowerChars[i] = c]
    ELSE c

StrLower(s) == [i \in 1..Len(s) |-> LowerChar(s[i])]

StrUpper(s) == [i \in 1..Len(s) |-> UpperChar(s[i])]

\* str.strip(): drop leading and trailing whitespace
StrStrip(s) ==
    LET keep == {i \in 1..Len(s) : ~IsSpace(s[i])}
    IN  IF keep = {} THEN <<>>
        ELSE LET lo == CHOOSE i \in keep : \A j \in keep : i <= j
                 hi == CHOOSE i \in keep : \A j \in keep : j <= i
             IN  SubSeq(s, lo, hi)

AllDigits(s) == Len(s) > 0 /\ \A i \in 1..Len(s) : IsDigit(s[i])

DigitVal(c) == (CHOOSE i \in 1..10 : DigitChars[i] = c) - 1

RECURSIVE ParseInt(_)
ParseInt(s) ==
    IF Len(s) = 0 THEN 0
    ELSE 10 * ParseInt(SubSeq(s, 1, Len(s) - 1)) + DigitVal(s[Len(s)])

\* str(n) of a non-negative integer
RECURSIVE IntStr(_)
IntStr(n) ==
    IF n < 10 THEN <<DigitChars[n + 1]>>
    ELSE IntStr(n \div 10) \o <<DigitChars[(n % 10) + 1]>>

\* n printed with at least w digits (strftime's zero padding)
RECURSIVE Pad(_, _)
Pad(s, w) == IF Len(s) >= w THEN s ELSE Pad(<<"0">> \o s, w)

\* s.split(sep)[0]
SplitHead(s, sep) ==
    IF \E i \in 1..Len(s) : s[i] = sep
    THEN SubSeq(s, 1, (CHOOSE i \in 1..Len(s) : s[i] = sep /\ \A j \in 1..(i - 1) : s[j] # sep) - 1)
    ELSE s

\* the positions of sep in s
SepPositions(s, sep) == {i \in 1..Len(s) : s[i] = sep}

(***************************************************************************)
(* Cells of the spreadsheet grid                                           *)
(***************************************************************************)
NaNCell == [t |-> "nan", s |-> <<>>, v |-> 0]

StrCell(s) == [t |-> "str", s |-> s, v |-> 0]

NumCell(n) == [t |-> "num", s |-> <<>>, v |-> n]

\* pd.isna(x)
IsNaCell(c) == c.t = "nan"

\* str(x) / Series.astype(str)
CellStr(c) ==
    CASE c.t = "nan" -> <<"n","a","n">>
      [] c.t = "str" -> c.s
      [] OTHER       -> IntStr(c.v)

(***************************************************************************)
(* Calendar dates                                                          *)
(***************************************************************************)
NaT == 0

Ymd(y, m, d) == y * 10000 + m * 100 + d

IsLeap(y) == (y % 4 = 0 /\ y % 100 # 0) \/ y % 400 = 0

DaysInMonth(y, m) ==
    IF m = 2 THEN (IF IsLeap(y) THEN 29 ELSE 28)
    ELSE IF m \in {4, 6, 9, 11} THEN 30 ELSE 31

\* the calendar date z days after 1970-01-01 (proleptic Gregorian)
CivilFromDays(z) ==
    LET zz  == z + 719468
        era == zz \div 146097
        doe == zz - era * 146097
        yoe == (doe - doe \div 1460 + doe \div 36524 - doe \div 146096) \div 365
        doy == doe - (365 * yoe + yoe \div 4 - yoe \div 100)
        mp  == (5 * doy + 2) \div 153
        d   == doy - (153 * mp + 2) \div 5 + 1
        m   == IF mp < 10 THEN mp + 3 ELSE mp - 9
        y   == yoe + era * 400 + (IF m <= 2 THEN 1 ELSE 0)
    IN  Ymd(y, m, d)

\* Timestamp.strftime("%Y-%m-%d")
IsoStr(ts) ==
    Pad(IntStr(ts \div 10000), 4) \o <<"-">> \o Pad(IntStr((ts \div 100) % 100), 2)
        \o <<"-">> \o Pad(IntStr(ts % 100), 2)

\* an ISO 8601 calendar date "YYYY-MM-DD"
IsIsoDate(s) ==
    /\ Len(s) = 10
    /\ s[5] = "-" /\ s[8] = "-"
    /\ AllDigits(SubSeq(s, 1, 4)) /\ AllDigits(SubSeq(s, 6, 7)) /\ AllDigits(SubSeq(s, 9, 10))
    /\ ParseInt(SubSeq(s, 6, 7)) \in 1..12
    /\ ParseInt(SubSeq(s, 9, 10)) \in 1..DaysInMonth(ParseInt(SubSeq(s, 1, 4)), ParseInt(SubSeq(s, 6, 7)))

IsoValue(s) == Ymd(ParseInt(SubSeq(s, 1, 4)), ParseInt(SubSeq(s, 6, 7)), ParseInt(SubSeq(s, 9, 10)))

\* the quarter abbreviations the generic parser itself understands:
\* "YYYYQq" and "YYYY-Qq", in either case, q in 1..4
IsQuarterAbbr(s) ==
    LET u == StrUpper(s)
    IN  /\ Len(u) \in {6, 7}
        /\ AllDigits(SubSeq(u, 1, 4))
        /\ u[Len(u) - 1] = "Q"
        /\ u[Len(u)] \in {"1", "2", "3", "4"}
        /\ (Len(u) = 7 => u[5] = "-")

QuarterStart(y, q) == Ymd(y, 3 * q - 2, 1)

\* Period("YYYYQq").to_timestamp(how="end").normalize()
QuarterEnd(y, q) == Ymd(y, 3 * q, DaysInMonth(y, 3 * q))

\* pd.to_datetime(s, errors="coerce") of one string: an ISO date parses to
\* itself, a quarter abbreviation to the first day of the quarter, anything
\* else (words, bare serial numbers, "nan") to NaT.
to_datetime(s) ==
    IF IsIsoDate(s) THEN IsoValue(s)
    ELSE IF IsQuarterAbbr(s)
         THEN QuarterStart(ParseInt(SubSeq(s, 1, 4)), DigitVal(s[Len(s)]))
         ELSE NaT

\* pd.to_datetime(float(x), unit="D", origin="1899-12-30", errors="coerce"):
\* x is the integral part of the serial number; 1899-12-30 is day -25569.
\* Timestamps end in 2262, i.e. at serial 132320.
excel_serial_to_datetime(x) ==
    IF x > 132320 THEN NaT ELSE CivilFromDays(x - 25569)

(***************************************************************************)
(* Column labels                                                           *)
(***************************************************************************)
DateName == <<"D","a","t","e">>

\* re.match(r"^(?P<num>\d+(?:\.\d+)?)(?:\.(?P<dup>\d+))?$", s): the pieces
\* between the dots, one to three of them, each a run of digits
SerialParts(s) ==
    LET dots == SepPositions(s, ".")
        cut  == [i \in 0..(Cardinality(dots) + 1) |->
                    IF i = 0 THEN 0
                    ELSE IF i = Cardinality(dots) + 1 THEN Len(s) + 1
                    ELSE CHOOSE p \in dots : Cardinality({q \in dots : q < p}) = i - 1]
    IN  [i \in 1..(Cardinality(dots) + 1) |-> SubSeq(s, cut[i - 1] + 1, cut[i] - 1)]

MatchesSerial(s) ==
    /\ Len(SerialParts(s)) \in 1..3
    /\ \A i \in 1..Len(SerialParts(s)) : AllDigits(SerialParts(s)[i])

\* None is the empty text: no label strips to it except the empty label,
\* which the grids of this model do not hold.
normalize_vintage_colname(name) ==
    IF IsNaCell(name) THEN <<>>
    ELSE LET s  == StrStrip(CellStr(name))
             dt == to_datetime(s)
         IN  IF dt # NaT THEN IsoStr(dt)
             ELSE IF MatchesSerial(s)
                  THEN LET parts == SerialParts(s)
                           dt2   == excel_serial_to_datetime(ParseInt(parts[1]))
                       IN  IF dt2 # NaT
                           THEN (IF Len(parts) = 3
                                 THEN IsoStr(dt2) \o <<"_">> \o parts[3]
                                 ELSE IsoStr(dt2))
                           ELSE s
                  ELSE s

RECURSIVE make_unique_loop(_, _, _, _)
make_unique_loop(names, i, seen, out) ==
    IF i > Len(names) THEN out
    ELSE LET key == names[i]
         IN  IF key \notin DOMAIN seen
             THEN make_unique_loop(names, i + 1, (key :> 0) @@ seen, Append(out, key))
             ELSE make_unique_loop(names, i + 1,
                                   [seen EXCEPT ![key] = @ + 1],
                                   Append(out, key \o <<"_">> \o IntStr(seen[key] + 1)))

make_unique(names) == make_unique_loop(names, 1, <<>>, <<>>)

\* lines 131-139: canonicalize every label but the first, then make_unique
norm_columns(colnames) ==
    make_unique([i \in 1..Len(colnames) |->
        IF i = 1 THEN DateName
        ELSE LET nc == normalize_vintage_colname(colnames[i])
             IN  IF nc \in {<<>>, <<"n","a","n">>, <<"N","a","N">>}
                 THEN <<"V","i","n","t","a","g","e","_">> \o IntStr(i - 1)
                 ELSE nc])

(***************************************************************************)
(* SpecNorm: column naming applied to a row of raw labels                  *)
(***************************************************************************)
Idle == [fn |-> "none"]

LabelCells ==
    { StrCell(<<"X">>), StrCell(<<"X","_","1">>), NumCell(45234),
      StrCell(<<"4","5","2","3","4",".","0",".","1">>), NaNCell }

RECURSIVE SeqsUpTo(_, _)
SeqsUpTo(S, n) ==
    IF n = 0 THEN {<<>>}
    ELSE LET shorter == SeqsUpTo(S, n - 1)
         IN  shorter \cup {Append(q, x) : q \in {r \in shorter : Len(r) = n - 1}, x \in S}

PipelineIdle ==
    /\ raw = <<>>
    /\ mode = "latest"
    /\ df = <<>>
    /\ error = "none"
    /\ shown = {}

InitNorm ==
    /\ PipelineIdle
    /\ pc = "call"
    /\ args \in {<<NaNCell>> \o l : l \in SeqsUpTo(LabelCells, MaxLabels)}
    /\ ret = <<>>

ApplyNorm ==
    /\ pc = "call"
    /\ ret' = norm_columns(args)
    /\ pc' = "return"
    /\ UNCHANGED <<raw, mode, df, error, shown, args>>

SpecNorm == InitNorm /\ [][ApplyNorm]_vars

\* C1: the column names produced by make_unique are pairwise distinct
C1_ColumnNamesUnique ==
    pc = "return" => \A i, j \in 1..Len(ret) : i # j => ret[i] # ret[j]

(***************************************************************************)
(* Header locator (load_and_process_data, lines 105-120)                   *)
(* Row indices are 0-based as in the source: row i is grid[i + 1].         *)
(***************************************************************************)
DateWord == <<"d","a","t","e">>

\* Series.str.contains(r"\bdate\b")
ContainsDateWord(s) ==
    \E p \in 1..(Len(s) - 3) :
        /\ SubSeq(s, p, p + 3) = DateWord
        /\ (p = 1 \/ ~IsWordChar(s[p - 1]))
        /\ (p + 3 = Len(s) \/ ~IsWordChar(s[p + 4]))

\* raw.iloc[:, 0].astype(str).str.strip().str.lower()
first_col(grid) == [i \in 1..Len(grid) |-> StrLower(StrStrip(CellStr(grid[i][1])))]

MinOf(S) == CHOOSE x \in S : \A y \in S : x <= y

MaxOf(S) == CHOOSE x \in S : \A y \in S : y <= x

Located(h) == [error |-> "none", header_row |-> h, vintage_row |-> h + 1, data_start |-> h + 2]

Failed(e) == [error |-> e, header_row |-> -1, vintage_row |-> -1, data_start |-> -1]

\* the locator that takes the first row that equals or contains the word
header_locator_single_pass(grid) ==
    LET fc   == first_col(grid)
        rows == {i \in 0..(Len(grid) - 1) : fc[i + 1] = DateWord \/ ContainsDateWord(fc[i + 1])}
    IN  IF rows = {} THEN Failed("HeaderNotFound")
        ELSE IF MinOf(rows) + 1 >= Len(grid) THEN Failed("VintageRowMissing")
        ELSE Located(MinOf(rows))

\* the locator that compares the cell without trimming and lower-casing it
header_locator_case_sensitive(grid) ==
    LET fc   == first_col(grid)
        eq   == {i \in 0..(Len(grid) - 1) : CellStr(grid[i + 1][1]) = DateName}
        rows == IF eq # {} THEN eq
                ELSE {i \in 0..(Len(grid) - 1) : ContainsDateWord(fc[i + 1])}
    IN  IF rows = {} THEN Failed("HeaderNotFound")
        ELSE IF MinOf(rows) + 1 >= Len(grid) THEN Failed("VintageRowMissing")
        ELSE Located(MinOf(rows))

header_locator(grid) ==
    LET fc   == first_col(grid)
        eq   == {i \in 0..(Len(grid) - 1) : fc[i + 1] = DateWord}
        rows == IF eq # {} THEN eq
                ELSE {i \in 0..(Len(grid) - 1) : ContainsDateWord(fc[i + 1])}
    IN  IF rows = {} THEN Failed("HeaderNotFound")
        ELSE IF MinOf(rows) + 1 >= Len(grid) THEN Failed("VintageRowMissing")
        ELSE Located(MinOf(rows))

(***************************************************************************)
(* SpecHeader: the header locator applied to one-column grids              *)
(***************************************************************************)
HeaderCells ==
    { StrCell(<<"D","a","t","e">>), StrCell(<<" ","D","A","T","E"," ">>),
      StrCell(<<"O","b","s"," ","d","a","t","e">>), StrCell(<<"u","p","d","a","t","e">>),
      StrCell(<<"1","9","6","5",":","Q","1">>), NaNCell }

InitHeader ==
    /\ PipelineIdle
    /\ pc = "call"
    /\ args \in SeqsUpTo({<<c>> : c \in HeaderCells}, MaxHeaderRows)
    /\ ret = <<>>

ApplyHeader ==
    /\ pc = "call"
    /\ ret' = header_locator(args)
    /\ pc' = "return"
    /\ UNCHANGED <<raw, mode, df, error, shown, args>>

SpecHeader == InitHeader /\ [][ApplyHeader]_vars

\* the rows of the grid in args whose first cell, trimmed and lower-cased, is "date"
EqRows == {i \in 0..(Len(args) - 1) : StrLower(StrStrip(CellStr(args[i + 1][1]))) = DateWord}

\* the rows whose first cell, trimmed and lower-cased, holds "date" as a whole word
WordRows == {i \in 0..(Len(args) - 1) : ContainsDateWord(StrLower(StrStrip(CellStr(args[i + 1][1]))))}

\* the rows whose first cell is exactly "Date"
ExactRows == {i \in 0..(Len(args) - 1) : args[i + 1][1] = StrCell(DateName)}

\* C2 as stated: the header row is the first row that equals or contains
\* the word "date"
C2_FirstEqualOrContains ==
    (pc = "return" /\ ret.error = "none") => ret.header_row = MinOf(EqRows \cup WordRows)

\* C2 amended: the header row is the first row that equals "date" when
\* there is one, and only otherwise the first row that contains the word
C2_EqualBeforeContains ==
    (pc = "return" /\ ret.error = "none") =>
        ret.header_row = (IF EqRows # {} THEN MinOf(EqRows) ELSE MinOf(WordRows))

\* C2 witness: a row that only contains the word precedes a row that equals it
C2_Witness ==
    /\ pc = "return" /\ ret.error = "none"
    /\ EqRows # {} /\ WordRows # {}
    /\ MinOf(WordRows) < MinOf(EqRows)

\* C3 as stated: a grid holding a row whose first cell is exactly "Date"
\* yields the index of the first such row, vintage row and data start after it
C3_ExactDateRow ==
    (pc = "return" /\ ExactRows # {}) =>
        /\ ret.error = "none"
        /\ ret.header_row = MinOf(ExactRows)
        /\ ret.vintage_row = ret.header_row + 1
        /\ ret.data_start = ret.header_row + 2

\* C3 amended: a grid holding a row whose first cell is exactly "Date" yields
\* the first row whose trimmed, lower-cased first cell is "date" (never a row
\* after the first exact one), with the vintage row and the data start after
\* it, unless that row is the last row: then the vintage row is missing
C3_TrimmedLowercasedDateRow ==
    (pc = "return" /\ ExactRows # {}) =>
        IF MinOf(EqRows) + 1 >= Len(args)
        THEN ret.error = "VintageRowMissing"
        ELSE /\ ret.error = "none"
             /\ ret.header_row = MinOf(EqRows)
             /\ ret.header_row <= MinOf(ExactRows)
             /\ ret.vintage_row = ret.header_row + 1
             /\ ret.data_start = ret.header_row + 2

\* C3 witness: an exact "Date" row is found although an upper-case one precedes it
C3_Witness ==
    /\ pc = "return" /\ ret.error = "none"
    /\ ExactRows # {}
    /\ ret.header_row < MinOf(ExactRows)

(***************************************************************************)
(* Date parser (parse_quarter_dates)                                       *)
(***************************************************************************)
\* pd.to_datetime(x, errors="coerce") of one cell: an integer counts
\* nanoseconds from 1970-01-01, so a small one is that day
to_datetime_cell(c) ==
    CASE c.t = "nan" -> NaT
      [] c.t = "num" -> Ymd(1970, 1, 1)
      [] OTHER       -> to_datetime(c.s)

\* pd.to_datetime(series, errors="coerce"). A library that infers one format
\* from the first non-null element (infer_format) parses every string with
\* the ISO format when that element is an ISO date; otherwise each element
\* is parsed on its own.
to_datetime_series(series, infer_format) ==
    LET nonnull == {i \in 1..Len(series) : ~IsNaCell(series[i])}
        strict  == /\ infer_format
                   /\ nonnull # {}
                   /\ series[MinOf(nonnull)].t = "str"
                   /\ IsIsoDate(series[MinOf(nonnull)].s)
    IN  [i \in 1..Len(series) |->
            IF strict /\ series[i].t = "str"
            THEN (IF IsIsoDate(series[i].s) THEN IsoValue(series[i].s) ELSE NaT)
            ELSE to_datetime_cell(series[i])]

\* r"^(?P<year>\d{4})\s*[:\-/ ]?\s*Q(?P<q>[1-4])$"
MatchesQuarter(s) ==
    /\ Len(s) >= 6
    /\ AllDigits(SubSeq(s, 1, 4))
    /\ s[Len(s) - 1] = "Q"
    /\ s[Len(s)] \in {"1", "2", "3", "4"}
    /\ \A i \in 5..(Len(s) - 2) : IsSpace(s[i]) \/ s[i] \in {":", "-", "/"}
    /\ Cardinality({i \in 5..(Len(s) - 2) : s[i] \in {":", "-", "/"}}) <= 1

parse_quarter_dates(date_series, infer_format) ==
    LET dt      == to_datetime_series(date_series, infer_format)
        missing == [i \in 1..Len(dt) |-> dt[i] = NaT]
        s       == [i \in 1..Len(dt) |-> StrStrip(CellStr(date_series[i]))]
        qmask   == [i \in 1..Len(dt) |-> missing[i] /\ MatchesQuarter(s[i])]
    IN  [i \in 1..Len(dt) |->
            IF qmask[i]
            THEN QuarterEnd(ParseInt(SubSeq(s[i], 1, 4)), DigitVal(s[i][Len(s[i])]))
            ELSE dt[i]]

(***************************************************************************)
(* SpecDates: the date parser applied to a column of tokens                *)
(***************************************************************************)
Q1Colon == <<"1","9","6","5",":","Q","1">>

Q1Plain == <<"1","9","6","5","Q","1">>

Q1Dash == <<"1","9","6","5","-","Q","1">>

DateCells ==
    { StrCell(Q1Colon), StrCell(Q1Plain), StrCell(Q1Dash),
      StrCell(<<"1","9","6","5"," ","Q","2">>),
      StrCell(<<"1","9","6","4","/","Q","4">>),
      StrCell(<<"1","9","6","5",":","Q","5">>),
      StrCell(<<"1","9","6","5","-","0","6","-","3","0">>),
      StrCell(<<"j","u","n","k">>), NaNCell }

InitDates ==
    /\ PipelineIdle
    /\ pc = "call"
    /\ args \in SeqsUpTo(DateCells, MaxDates)
    /\ ret = <<>>

ApplyDates ==
    /\ pc = "call"
    /\ \E infer_format \in BOOLEAN : ret' = parse_quarter_dates(args, infer_format)
    /\ pc' = "return"
    /\ UNCHANGED <<raw, mode, df, error, shown, args>>

SpecDates == InitDates /\ [][ApplyDates]_vars

\* the claim's pattern: four digits, an optional separator, Q, a digit 1..4
ClaimQuarterToken(s) ==
    /\ Len(s) \in {6, 7}
    /\ AllDigits(SubSeq(s, 1, 4))
    /\ s[Len(s) - 1] = "Q" /\ s[Len(s)] \in {"1", "2", "3", "4"}
    /\ (Len(s) = 7 => s[5] \in {":", "-", "/", " "})

\* C9: the parser is length-preserving; "1965:Q1", "1965Q1" and "1965-Q1"
\* all give 1965-03-31; a token the generic parse leaves missing gives the
\* last day of its quarter when it matches the quarter pattern and stays
\* missing when it does not
C9_QuarterTokensGiveQuarterEnd ==
    pc = "return" =>
        /\ Len(ret) = Len(args)
        /\ \A i \in 1..Len(args) :
              /\ args[i] \in {StrCell(Q1Colon), StrCell(Q1Plain), StrCell(Q1Dash)}
                    => ret[i] = Ymd(1965, 3, 31)
              /\ (args[i].t = "str" /\ ClaimQuarterToken(args[i].s) /\ to_datetime(args[i].s) = NaT)
                    => ret[i] = QuarterEnd(ParseInt(SubSeq(args[i].s, 1, 4)), DigitVal(args[i].s[Len(args[i].s)]))
              /\ (args[i].t = "str" /\ ~ClaimQuarterToken(args[i].s) /\ to_datetime(args[i].s) = NaT)
                    => ret[i] = NaT
              /\ args[i].t = "nan" => ret[i] = NaT

\* the part of C9 that the parser does meet: everything but the examples
\* "1965Q1" and "1965-Q1"
DatesSanity ==
    pc = "return" =>
        /\ Len(ret) = Len(args)
        /\ \A i \in 1..Len(args) :
              /\ args[i] = StrCell(Q1Colon) => ret[i] = Ymd(1965, 3, 31)
              /\ (args[i].t = "str" /\ ClaimQuarterToken(args[i].s) /\ to_datetime(args[i].s) = NaT)
                    => ret[i] = QuarterEnd(ParseInt(SubSeq(args[i].s, 1, 4)), DigitVal(args[i].s[Len(args[i].s)]))
              /\ (args[i].t = "str" /\ ~ClaimQuarterToken(args[i].s) /\ to_datetime(args[i].s) = NaT)
                    => ret[i] = NaT
              /\ args[i].t = "nan" => ret[i] = NaT

(***************************************************************************)
(* Floating-point values, held exactly                                     *)
(***************************************************************************)
Abs(x) == IF x < 0 THEN -x ELSE x

Sign(x) == IF x < 0 THEN -1 ELSE IF x > 0 THEN 1 ELSE 0

RECURSIVE Gcd(_, _)
Gcd(a, b) == IF b = 0 THEN a ELSE Gcd(b, a % b)

NaN == [k |-> "nan", n |-> 0, d |-> 1]

Inf(s) == [k |-> "inf", n |-> s, d |-> 1]

\* the rational n/d, d # 0, in lowest terms with a positive denominator
Num(n, d) ==
    LET g == Gcd(Abs(n), Abs(d))
    IN  [k |-> "num", n |-> Sign(d) * (n \div g), d |-> Abs(d) \div g]

IsNaN(x) == x.k = "nan"

IsFinite(x) == x.k = "num"

\* x / y: a finite non-zero value over zero is an infinity, 0 / 0 is NaN
FDiv(x, y) ==
    CASE IsNaN(x) \/ IsNaN(y)          -> NaN
      [] x.k = "inf" /\ y.k = "inf"    -> NaN
      [] x.k = "inf"                   -> Inf(x.n * (IF y.n < 0 THEN -1 ELSE 1))
      [] y.k = "inf"                   -> Num(0, 1)
      [] y.n = 0 /\ x.n = 0            -> NaN
      [] y.n = 0                       -> Inf(Sign(x.n))
      [] OTHER                         -> Num(x.n * y.d, x.d * y.n)

\* x ** 4
FPow4(x) ==
    CASE IsNaN(x)    -> NaN
      [] x.k = "inf" -> Inf(1)
      [] OTHER       -> Num(x.n * x.n * x.n * x.n, x.d * x.d * x.d * x.d)

\* x - y
FSub(x, y) ==
    CASE IsNaN(x) \/ IsNaN(y)                      -> NaN
      [] x.k = "inf" /\ y.k = "inf" /\ x.n = y.n   -> NaN
      [] x.k = "inf"                               -> x
      [] y.k = "inf"                               -> Inf(-y.n)
      [] OTHER                                     -> Num(x.n * y.d - y.n * x.d, x.d * y.d)

\* x * y
FMul(x, y) ==
    CASE IsNaN(x) \/ IsNaN(y)                      -> NaN
      [] x.k = "inf" /\ y.k = "num" /\ y.n = 0     -> NaN
      [] y.k = "inf" /\ x.k = "num" /\ x.n = 0     -> NaN
      [] x.k = "inf" \/ y.k = "inf"                -> Inf(Sign(x.n) * Sign(y.n))
      [] OTHER                                     -> Num(x.n * y.n, x.d * y.d)

\* x + y of two finite values
FAdd(x, y) == Num(x.n * y.d + y.n * x.d, x.d * y.d)

(***************************************************************************)
(* Transformer: calc_qoq_saar                                              *)
(***************************************************************************)
\* Series.shift(1)
Shift1(series) == [i \in 1..Len(series) |-> IF i = 1 THEN NaN ELSE series[i - 1]]

calc_qoq_saar(level_series) ==
    [i \in 1..Len(level_series) |->
        FMul(FSub(FPow4(FDiv(level_series[i], Shift1(level_series)[i])), Num(1, 1)), Num(100, 1))]

(***************************************************************************)
(* SpecQoq: calc_qoq_saar applied to a level series                        *)
(***************************************************************************)
Levels == {NaN, Num(0, 1), Num(2, 1), Num(100, 1)}

InitQoq ==
    /\ PipelineIdle
    /\ pc = "call"
    /\ args \in SeqsUpTo(Levels, MaxSeries)
    /\ ret = <<>>

ApplyQoq ==
    /\ pc = "call"
    /\ ret' = calc_qoq_saar(args)
    /\ pc' = "return"
    /\ UNCHANGED <<raw, mode, df, error, shown, args>>

SpecQoq == InitQoq /\ [][ApplyQoq]_vars

\* ((a / b)^4 - 1) * 100 for finite levels a and b, b # 0
SaarOf(a, b) ==
    LET r == Num(a.n * b.d, a.d * b.n)
    IN  Num((r.n * r.n * r.n * r.n - r.d * r.d * r.d * r.d) * 100, r.d * r.d * r.d * r.d)

\* C7: qoq_saar[t] is ((level[t] / level[t-1])^4 - 1) * 100 when both levels
\* are present and level[t-1] is not zero, and is missing (not infinite) for
\* the first element, for a missing operand and for a zero denominator
C7_QoqSaarMissingOrFormula ==
    pc = "return" =>
        /\ Len(ret) = Len(args)
        /\ \A t \in 1..Len(args) :
              IF t = 1 \/ IsNaN(args[t]) \/ IsNaN(args[t - 1]) \/ args[t - 1].n = 0
              THEN IsNaN(ret[t])
              ELSE ret[t] = SaarOf(args[t], args[t - 1])

\* what calc_qoq_saar does meet: the formula, and missing for the first
\* element and for a missing operand; over a zero level it gives an
\* infinity, or NaN for 0 / 0
QoqSanity ==
    pc = "return" =>
        /\ Len(ret) = Len(args)
        /\ \A t \in 1..Len(args) :
              IF t = 1 \/ IsNaN(args[t]) \/ IsNaN(args[t - 1])
              THEN IsNaN(ret[t])
              ELSE IF args[t - 1].n = 0
                   THEN (IF args[t].n = 0 THEN IsNaN(ret[t]) ELSE ret[t] = Inf(1))
                   ELSE ret[t] = SaarOf(args[t], args[t - 1])

(***************************************************************************)
(* Transformer: rolling z-score (lines 216-220)                            *)
(* A z-score is held as [k, n, d, vn, vd]: (n/d) / sqrt(vn/vd).            *)
(***************************************************************************)
ZNaN == [k |-> "nan", n |-> 0, d |-> 1, vn |-> 0, vd |-> 1]

ZVal(num, var) == [k |-> "z", n |-> num.n, d |-> num.d, vn |-> var.n, vd |-> var.d]

RECURSIVE FSum(_, _)
FSum(series, idx) ==
    IF idx = {} THEN Num(0, 1)
    ELSE LET i == MinOf(idx) IN FAdd(series[i], FSum(series, idx \ {i}))

\* the observations of the window ending at t: the rolling aggregations
\* read an infinity as missing
WindowObs(series, t, window) ==
    {i \in 1..t : i > t - window /\ IsFinite(series[i])}

\* Series.rolling(window, min_periods=min_periods).mean()
rolling_mean(series, window, min_periods) ==
    [t \in 1..Len(series) |->
        LET obs == WindowObs(series, t, window)
        IN  IF Cardinality(obs) < min_periods \/ obs = {} THEN NaN
            ELSE FDiv(FSum(series, obs), Num(Cardinality(obs), 1))]

\* Series.rolling(window, min_periods=min_periods).var(ddof=ddof): the std
\* is its square root
rolling_var(series, window, min_periods, ddof) ==
    [t \in 1..Len(series) |->
        LET obs  == WindowObs(series, t, window)
            mean == FDiv(FSum(series, obs), Num(Cardinality(obs), 1))
            dev2 == [i \in 1..Len(series) |->
                        IF i \in obs THEN FMul(FSub(series[i], mean), FSub(series[i], mean)) ELSE NaN]
        IN  IF Cardinality(obs) < min_periods \/ Cardinality(obs) <= ddof THEN NaN
            ELSE FDiv(FSum(dev2, obs), Num(Cardinality(obs) - ddof, 1))]

\* (series - roll_mean) / roll_std
zscore(series, window, min_periods, ddof) ==
    LET roll_mean == rolling_mean(series, window, min_periods)
        roll_var  == rolling_var(series, window, min_periods, ddof)
    IN  [t \in 1..Len(series) |->
            LET num == FSub(series[t], roll_mean[t])
            IN  IF ~IsFinite(num) \/ ~IsFinite(roll_var[t]) THEN ZNaN
                ELSE IF roll_var[t].n = 0 THEN ZNaN
                ELSE ZVal(num, roll_var[t])]

\* the z-score over the sample standard deviation (ddof=1)
zscore_sample_std(series) == zscore(series, WINDOW_Q, WINDOW_Q, 1)

zscore_20y(series) == zscore(series, WINDOW_Q, WINDOW_Q, 0)

(***************************************************************************)
(* SpecZ: the rolling z-score applied to a target series                   *)
(***************************************************************************)
ZInputs == {NaN, Inf(1), Num(0, 1), Num(1, 1), Num(3, 1)}

InitZ ==
    /\ PipelineIdle
    /\ pc = "call"
    /\ args \in SeqsUpTo(ZInputs, MaxZLen)
    /\ ret = <<>>

ApplyZ ==
    /\ pc = "call"
    /\ ret' = zscore_20y(args)
    /\ pc' = "return"
    /\ UNCHANGED <<raw, mode, df, error, shown, args>>

SpecZ == InitZ /\ [][ApplyZ]_vars

\* the W positions ending at t
Window(t) == (t - WINDOW_Q + 1)..t

RECURSIVE IntSum(_, _)
IntSum(f, idx) ==
    IF idx = {} THEN 0
    ELSE LET i == MinOf(idx) IN f[i] + IntSum(f, idx \ {i})

\* W * x[t] - sum, and W * sum of squares - sum^2, over the window ending
\* at t of integers: the z-score is their quotient with the root taken below
ZNumer(t) == WINDOW_Q * args[t].n - IntSum([i \in Window(t) |-> args[i].n], Window(t))

ZDenomSq(t) ==
    WINDOW_Q * IntSum([i \in Window(t) |-> args[i].n * args[i].n], Window(t))
        - IntSum([i \in Window(t) |-> args[i].n], Window(t)) * IntSum([i \in Window(t) |-> args[i].n], Window(t))

\* ret[t] is (x[t] - mean) / population standard deviation of the window
ZIsFormula(t) ==
    /\ ret[t].k = "z"
    /\ ZDenomSq(t) > 0
    /\ Sign(ret[t].n) = Sign(ZNumer(t))
    /\ ret[t].n * ret[t].n * ret[t].vd * ZDenomSq(t) = ZNumer(t) * ZNumer(t) * ret[t].d * ret[t].d * ret[t].vn

WindowPresent(t) == t >= WINDOW_Q /\ \A i \in Window(t) : ~IsNaN(args[i])

WindowFinite(t) == t >= WINDOW_Q /\ \A i \in Window(t) : IsFinite(args[i])

\* C8 as stated: the z-score is defined only over a full window of
\* non-missing values, there it is (x[t] - mean) / population std, and a
\* series without missing values has its first z-score at index W-1
\* (read here for windows of finite values only, where the formula has a value)
C8_ZScoreFullWindow ==
    pc = "return" =>
        /\ Len(ret) = Len(args)
        /\ \A t \in 1..Len(args) :
              /\ ret[t].k = "z" => WindowPresent(t)
              /\ WindowFinite(t) => ZIsFormula(t)
        /\ ((\A i \in 1..Len(args) : IsFinite(args[i])) /\ Len(args) >= WINDOW_Q)
              => ret[WINDOW_Q].k = "z"

\* C8 amended: the z-score is defined exactly over a full window of finite
\* values that are not all equal, there it is (x[t] - mean) / population
\* std (divisor W), and every index before W-1 is missing
C8_ZScoreFullVaryingWindow ==
    pc = "return" =>
        /\ Len(ret) = Len(args)
        /\ \A t \in 1..Len(args) :
              /\ t < WINDOW_Q => ret[t].k = "nan"
              /\ ret[t].k = "z" <=>
                    (WindowFinite(t) /\ \E i, j \in Window(t) : args[i] # args[j])
              /\ ret[t].k = "z" => ZIsFormula(t)

\* C8 witness: a z-score over a window that has slid past the first W values
C8_Witness ==
    /\ pc = "return"
    /\ \E t \in 1..Len(args) : t > WINDOW_Q /\ ret[t].k = "z" /\ ret[t].n # 0 /\ ret[t - 1].k = "nan"

(***************************************************************************)
(* Vintage selector (pick_vintage_values)                                  *)
(* A table is [value_cols, Date, data]: the names of the columns other     *)
(* than Date, the Date column, and one sequence of floats per row.         *)
(***************************************************************************)
\* DataFrame.dropna(axis=1, how="all"): the columns with a value in some row
KeptCols(d) ==
    {j \in 1..Len(d.value_cols) : \E r \in 1..Len(d.data) : ~IsNaN(d.data[r][j])}

\* pd.to_datetime([c.split("_")[0] for c in data.columns], errors="coerce")
ParsedName(name) == to_datetime(SplitHead(name, "_"))

\* the outcomes of parsed.argsort() over the kept columns: ascending dates,
\* equal dates in either order (the sort is not stable), NaT last in source
\* order; the source order itself when no name parses
Orders(d) ==
    LET kept   == KeptCols(d)
        n      == Cardinality(kept)
        parsed == [j \in 1..Len(d.value_cols) |-> ParsedName(d.value_cols[j])]
    IN  { o \in [1..n -> kept] :
            /\ \A a, b \in 1..n : a # b => o[a] # o[b]
            /\ IF \E j \in kept : parsed[j] # NaT
               THEN \A a, b \in 1..n : a < b =>
                      \/ parsed[o[a]] # NaT /\ parsed[o[b]] # NaT /\ parsed[o[a]] <= parsed[o[b]]
                      \/ parsed[o[a]] # NaT /\ parsed[o[b]] = NaT
                      \/ parsed[o[a]] = NaT /\ parsed[o[b]] = NaT /\ o[a] < o[b]
               ELSE \A a, b \in 1..n : a < b => o[a] < o[b] }

\* data.ffill(axis=1).iloc[:, -1] of one row
LastFilled(row, order) ==
    LET present == {a \in 1..Len(order) : ~IsNaN(row[order[a]])}
    IN  IF present = {} THEN NaN ELSE row[order[MaxOf(present)]]

\* data.bfill(axis=1).iloc[:, 0] of one row
FirstFilled(row, order) ==
    LET present == {a \in 1..Len(order) : ~IsNaN(row[order[a]])}
    IN  IF present = {} THEN NaN ELSE row[order[MinOf(present)]]

\* the selector that leaves the columns in source order
pick_vintage_values_unsorted(d, m, order) ==
    LET src == [a \in 1..Len(order) |->
                   CHOOSE j \in KeptCols(d) : Cardinality({i \in KeptCols(d) : i < j}) = a - 1]
    IN  [r \in 1..Len(d.data) |->
            IF m = "latest" THEN LastFilled(d.data[r], src) ELSE FirstFilled(d.data[r], src)]

\* the selector whose 'first' branch repeats the 'latest' one
pick_vintage_values_first_as_latest(d, m, order) ==
    [r \in 1..Len(d.data) |->
        IF Len(order) = 0 THEN NaN ELSE LastFilled(d.data[r], order)]

pick_vintage_values(d, m, order) ==
    [r \in 1..Len(d.data) |->
        IF Len(order) = 0 THEN NaN
        ELSE IF m = "latest" THEN LastFilled(d.data[r], order)
        ELSE FirstFilled(d.data[r], order)]

(***************************************************************************)
(* SpecPick: the vintage selector applied to a normalized table            *)
(***************************************************************************)
VintageNames ==
    { <<"2","0","2","3","-","1","2","-","0","4">>,
      <<"2","0","2","3","-","1","1","-","0","4">>,
      <<"2","0","2","3","-","1","1","-","0","4","_","1">>,
      <<"X">> }

\* the column lists without a repeated name
NameLists ==
    {l \in SeqsUpTo(VintageNames, MaxCols) : \A i, j \in 1..Len(l) : i # j => l[i] # l[j]}

\* the value of row r, column j when it is present: every cell has its own
CellValue(r, j) == Num(10 * r + j, 1)

\* the tables of nrows rows over the columns cols, each cell present or missing
Tables(cols, nrows) ==
    { [has_date |-> TRUE,
       value_cols |-> cols,
       Date |-> [r \in 1..nrows |-> Ymd(1965, 3, 31)],
       data |-> [r \in 1..nrows |-> [j \in 1..Len(cols) |->
                    IF <<r, j>> \in present THEN CellValue(r, j) ELSE NaN]]]
      : present \in SUBSET ((1..nrows) \X (1..Len(cols))) }

InitPick ==
    /\ raw = <<>>
    /\ error = "none"
    /\ shown = {}
    /\ args = <<>>
    /\ pc = "call"
    /\ mode \in {"latest", "first"}
    /\ \E cols \in NameLists, nrows \in 1..MaxPickRows : df \in Tables(cols, nrows)
    /\ ret = <<>>

ApplyPick ==
    /\ pc = "call"
    /\ \E order \in Orders(df) : ret' = pick_vintage_values(df, mode, order)
    /\ pc' = "return"
    /\ UNCHANGED <<raw, mode, df, error, shown, args>>

SpecPick == InitPick /\ [][ApplyPick]_vars

\* column a comes after column b in the order the claims state: by the
\* date of the name before "_", and by source position between two names
\* that hold no date
ComesAfter(a, b) ==
    LET pa == ParsedName(df.value_cols[a])
        pb == ParsedName(df.value_cols[b])
    IN  \/ pa # NaT /\ pb # NaT /\ pa > pb
        \/ pa = NaT /\ pb = NaT /\ a > b

PresentIn(r) == {j \in 1..Len(df.value_cols) : ~IsNaN(df.data[r][j])}

ArgSorts(keys) ==
    { o \in [1..Len(keys) -> 1..Len(keys)] :
        /\ \A a, b \in 1..Len(keys) : a # b => o[a] # o[b]
        /\ \A a, b \in 1..Len(keys) : a < b => keys[o[a]] <= keys[o[b]] }

\* the bijection from 1..|S| onto the set of integers S, ascending
Ascending(S) ==
    [a \in 1..Cardinality(S) |-> CHOOSE j \in S : Cardinality({i \in S : i < j}) = a - 1]

\* pd.to_numeric(x, errors="coerce") of one cell
to_numeric(c) ==
    CASE c.t = "num"                    -> Num(c.v, 1)
      [] c.t = "str" /\ AllDigits(c.s)  -> Num(ParseInt(c.s), 1)
      [] OTHER                          -> NaN

LoadError(e) ==
    [error |-> e, header_row |-> -1, norm |-> <<>>, cols |-> <<>>, Date |-> <<>>, cells |-> <<>>]

\* lines 103-149, up to the rows that have a date, before they are sorted
load_prepare(grid, infer_format) ==
    LET g    == SelectSeq(grid, LAMBDA row : \E j \in 1..Len(row) : ~IsNaCell(row[j]))
        loc  == header_locator(g)
    IN  IF loc.error # "none" THEN LoadError(loc.error)
        ELSE
        LET vrow     == g[loc.vintage_row + 1]
            colnames == IF \A j \in 2..Len(vrow) : IsNaCell(vrow[j])
                        THEN g[loc.header_row + 1] ELSE vrow
            norm     == norm_columns(colnames)
            rows     == SubSeq(g, loc.data_start + 1, Len(g))
            kept     == {j \in 1..Len(norm) : \E r \in 1..Len(rows) : ~IsNaCell(rows[r][j])}
        IN  IF 1 \notin kept THEN [LoadError("KeyError") EXCEPT !.header_row = loc.header_row, !.norm = norm]
            ELSE
            LET dt    == parse_quarter_dates([r \in 1..Len(rows) |-> rows[r][1]], infer_format)
                dated == Ascending({r \in 1..Len(rows) : dt[r] # NaT})
                cols  == Ascending(kept \ {1})
            IN  [error |-> "none",
                 header_row |-> loc.header_row,
                 norm  |-> norm,
                 cols  |-> [a \in 1..Len(cols) |-> norm[cols[a]]],
                 Date  |-> [a \in 1..Len(dated) |-> dt[dated[a]]],
                 cells |-> [a \in 1..Len(dated) |-> [b \in 1..Len(cols) |-> rows[dated[a]][cols[b]]]]]

\* lines 149-158: sort by Date, make the value columns numeric, drop the
\* columns without a value; a table without rows loses every column
load_finish(pre, order) ==
    LET data == [a \in 1..Len(order) |-> [b \in 1..Len(pre.cols) |-> to_numeric(pre.cells[order[a]][b])]]
        kept == Ascending({b \in 1..Len(pre.cols) : \E a \in 1..Len(data) : ~IsNaN(data[a][b])})
    IN  [has_date   |-> Len(order) > 0,
         value_cols |-> [b \in 1..Len(kept) |-> pre.cols[kept[b]]],
         Date       |-> [a \in 1..Len(order) |-> pre.Date[order[a]]],
         data       |-> [a \in 1..Len(order) |-> [b \in 1..Len(kept) |-> data[a][kept[b]]]],
         value      |-> <<>>,
         qoq_saar   |-> <<>>,
         zscore_20y |-> <<>>]

(***************************************************************************)
(* The script (lines 195-232)                                              *)
(***************************************************************************)
NoTable ==
    [has_date |-> FALSE, value_cols |-> <<>>, Date |-> <<>>, data |-> <<>>,
     value |-> <<>>, qoq_saar |-> <<>>, zscore_20y |-> <<>>]

FirstCells ==
    { StrCell(<<"D","a","t","e">>), StrCell(Q1Colon), StrCell(<<"j","u","n","k">>), NaNCell }

ValueCells == {NaNCell, NumCell(1), NumCell(2)}

Grids == SeqsUpTo({<<a, b>> : a \in FirstCells, b \in ValueCells}, MaxGridRows)

\* what the page shows of the result
ResultElements ==
    {"subheader_qoq", "chart_qoq", "subheader_zscore", "chart_zscore", "subheader_table", "table", "raw_table"}

Init ==
    /\ pc = "sidebar"
    /\ raw = <<>>
    /\ mode = "latest"
    /\ df = NoTable
    /\ error = "none"
    /\ shown = {"title"}
    /\ args = <<>>
    /\ ret = <<>>

\* lines 197-203: the radio button
Sidebar ==
    /\ pc = "sidebar"
    /\ mode' \in {"latest", "first"}
    /\ pc' = "load"
    /\ UNCHANGED <<raw, df, error, shown, args, ret>>

\* lines 206-210: load_and_process_data on the downloaded grid; any
\* exception is shown and stops the script
Load ==
    /\ pc = "load"
    /\ \E grid \in Grids, infer_format \in BOOLEAN :
          \E pre \in {load_prepare(grid, infer_format)} :
              /\ raw' = grid
              /\ IF pre.error # "none"
                 THEN /\ error' = pre.error
                      /\ shown' = shown \cup {"error"}
                      /\ pc' = "stopped"
                      /\ df' = df
                 ELSE /\ \E order \in ArgSorts(pre.Date) : df' = load_finish(pre, order)
                      /\ pc' = "derive"
                      /\ UNCHANGED <<error, shown>>
    /\ UNCHANGED <<mode, args, ret>>

\* lines 212-220: value, qoq_saar and zscore_20y
Derive ==
    /\ pc = "derive"
    /\ \E order \in Orders(df) :
          \E value \in {pick_vintage_values(df, mode, order)} :
              \E qoq \in {calc_qoq_saar(value)} :
                  df' = [df EXCEPT !.value = value, !.qoq_saar = qoq, !.zscore_20y = zscore_20y(qoq)]
    /\ pc' = "render"
    /\ UNCHANGED <<raw, mode, error, shown, args, ret>>

\* lines 222-232: the charts index the table by Date; without that column
\* the first chart raises KeyError, after its subheader, and nothing
\* catches it
Render ==
    /\ pc = "render"
    /\ IF df.has_date
       THEN /\ shown' = shown \cup ResultElements
            /\ pc' = "done"
            /\ error' = error
       ELSE /\ shown' = shown \cup {"subheader_qoq", "exception"}
            /\ pc' = "crashed"
            /\ error' = "KeyError"
    /\ UNCHANGED <<raw, mode, df, args, ret>>

Next == Sidebar \/ Load \/ Derive \/ Render

Spec == Init /\ [][Next]_vars

\* the grid as the locator sees it: without its empty rows
Cleaned == SelectSeq(raw, LAMBDA row : \E j \in 1..Len(row) : ~IsNaCell(row[j]))

\* the rows whose first cell matches "date"
DateRows ==
    {i \in 0..(Len(Cleaned) - 1) :
        LET s == StrLower(StrStrip(CellStr(Cleaned[i + 1][1])))
        IN  s = DateWord \/ ContainsDateWord(s)}

Loaded == pc \in {"stopped", "derive", "render", "done", "crashed"}

\* C4: no "date" row gives the header-not-found error, a header in the last
\* row gives the vintage-row-missing error, after either there is no table
\* and nothing of the result on the page, and no run has both a fatal
\* error and a table or a part of the result on the page
C4_AllOrNothing ==
    /\ (Loaded /\ DateRows = {}) => error = "HeaderNotFound"
    /\ (Loaded /\ DateRows # {} /\ MinOf(DateRows) = Len(Cleaned) - 1) => error = "VintageRowMissing"
    /\ error \in {"HeaderNotFound", "VintageRowMissing"} => (df = NoTable /\ shown \cap ResultElements = {})
    /\ error # "none" => (df = NoTable /\ shown \cap ResultElements = {})

\* what the script does meet: a failure inside load_and_process_data
\* leaves no table and shows nothing of the result
LoadFailureShowsNothing ==
    /\ (Loaded /\ DateRows = {}) => error = "HeaderNotFound"
    /\ (Loaded /\ DateRows # {} /\ MinOf(DateRows) = Len(Cleaned) - 1) => error = "VintageRowMissing"
    /\ pc = "stopped" => (error # "none" /\ df = NoTable /\ shown = {"title", "error"})
    /\ pc = "done" => (error = "none" /\ ResultElements \subseteq shown)

\* C10: the derived series has no record with a missing Date and no two
\* records with the same Date
C10_OneRecordPerDate ==
    pc \in {"render", "done"} =>
        /\ Len(df.value) = Len(df.Date)
        /\ \A a \in 1..Len(df.Date) : df.Date[a] # NaT
        /\ \A a, b \in 1..Len(df.Date) : a # b => df.Date[a] # df.Date[b]

\* what the script does meet: no record has a missing Date, and the
\* records are in ascending order of Date
DatesPresentAndSorted ==
    pc \in {"render", "done"} =>
        /\ Len(df.value) = Len(df.Date)
        /\ \A a \in 1..Len(df.Date) : df.Date[a] # NaT
        /\ \A a, b \in 1..Len(df.Date) : a < b => df.Date[a] <= df.Date[b]

=============================================================================
